---------------------------- MODULE Spec2Model ----------------------------
(***************************************************************************)
(* Model of dyn (src/main.go): a dynamic-DNS agent.  On every tick of a    *)
(* time.Ticker the main goroutine discovers the public IP (newPublicIP),   *)
(* locates the managed A record at the provider (dynIP.getRecord) and      *)
(* updates it when it differs from the discovered IP (dynIP.Sync).         *)
(*                                                                         *)
(* Strings are TLA+ strings, an IP is a sequence of bytes as Go's net.IP   *)
(* ([]byte): <<>> is the nil IP, 4 bytes the short IPv4 form, 16 bytes the *)
(* IPv6 form (an IPv4 address carries the prefix v4InV6Prefix there).      *)
(***************************************************************************)
EXTENDS Integers, Sequences, FiniteSets, TLC

(***************************************************************************)
(* Go package net: the functions main.go calls on net.IP.                  *)
(***************************************************************************)
IPv4len == 4
IPv6len == 16

Zeros(n) == [k \in 1..n |-> 0]

v4InV6Prefix == Zeros(10) \o <<255, 255>>

\* net.IPv4(a, b, c, d): the 16-byte form of an IPv4 address
IPv4(a, b, c, d) == v4InV6Prefix \o <<a, b, c, d>>

\* ip.To4(): the 4-byte form, or nil when ip is not an IPv4 address
To4(ip) ==
    IF Len(ip) = IPv4len THEN ip
    ELSE IF /\ Len(ip) = IPv6len
            /\ SubSeq(ip, 1, 10) = Zeros(10)
            /\ ip[11] = 255
            /\ ip[12] = 255
         THEN SubSeq(ip, 13, 16)
         ELSE <<>>

\* ip.Equal(x) with the comparison of lengths left out: a 4-byte and a
\* 16-byte form of the same address compare unequal
EqualSameLenOnly(ip, x) == ip = x

\* ip.Equal(x): same address, an IPv4 address in either form
Equal(ip, x) ==
    IF Len(ip) = Len(x) THEN ip = x
    ELSE IF Len(ip) = IPv4len /\ Len(x) = IPv6len
         THEN SubSeq(x, 1, 12) = v4InV6Prefix /\ ip = SubSeq(x, 13, 16)
    ELSE IF Len(ip) = IPv6len /\ Len(x) = IPv4len
         THEN SubSeq(ip, 1, 12) = v4InV6Prefix /\ SubSeq(ip, 13, 16) = x
    ELSE FALSE

\* ---- text helpers ----
Char(s, i) == SubSeq(s, i, i)
Tail0(s, c) == SubSeq(s, c + 1, Len(s))      \* Go's s[c:]

DecDigits == <<"0", "1", "2", "3", "4", "5", "6", "7", "8", "9">>
HexDigits == DecDigits \o <<"a", "b", "c", "d", "e", "f">>
HexUpper == <<"A", "B", "C", "D", "E", "F">>

IsDec(c) == \E k \in 1..10 : DecDigits[k] = c
DecVal(c) == (CHOOSE k \in 1..10 : DecDigits[k] = c) - 1
IsHex(c) == (\E k \in 1..16 : HexDigits[k] = c) \/ (\E k \in 1..6 : HexUpper[k] = c)
HexVal(c) ==
    IF \E k \in 1..16 : HexDigits[k] = c
    THEN (CHOOSE k \in 1..16 : HexDigits[k] = c) - 1
    ELSE (CHOOSE k \in 1..6 : HexUpper[k] = c) + 9

big == 16777215      \* 0xFFFFFF, the cap of dtoi and xtoi

\* dtoi(s): the decimal number s starts with, as [n, c, ok] (value,
\* characters consumed, at least one digit and below big)
RECURSIVE dtoiFrom(_, _, _)
dtoiFrom(s, i, n) ==
    IF i < Len(s) /\ IsDec(Char(s, i + 1))
    THEN LET m == n * 10 + DecVal(Char(s, i + 1))
         IN  IF m >= big THEN [n |-> big, c |-> i, ok |-> FALSE]
             ELSE dtoiFrom(s, i + 1, m)
    ELSE IF i = 0 THEN [n |-> 0, c |-> 0, ok |-> FALSE]
         ELSE [n |-> n, c |-> i, ok |-> TRUE]

dtoi(s) == dtoiFrom(s, 0, 0)

\* xtoi(s): the same for a hexadecimal number
RECURSIVE xtoiFrom(_, _, _)
xtoiFrom(s, i, n) ==
    IF i < Len(s) /\ IsHex(Char(s, i + 1))
    THEN LET m == n * 16 + HexVal(Char(s, i + 1))
         IN  IF m >= big THEN [n |-> 0, c |-> i, ok |-> FALSE]
             ELSE xtoiFrom(s, i + 1, m)
    ELSE IF i = 0 THEN [n |-> 0, c |-> i, ok |-> FALSE]
         ELSE [n |-> n, c |-> i, ok |-> TRUE]

xtoi(s) == xtoiFrom(s, 0, 0)

\* parseIPv4(s): four decimal octets separated by dots, as a 16-byte IP;
\* nil on a missing octet, an octet above 255, an octet with a leading zero
\* or trailing text
RECURSIVE parseIPv4From(_, _, _)
parseIPv4From(s, i, p) ==
    IF i = IPv4len
    THEN IF Len(s) # 0 THEN <<>> ELSE IPv4(p[1], p[2], p[3], p[4])
    ELSE IF Len(s) = 0 THEN <<>>
    ELSE IF i > 0 /\ Char(s, 1) # "." THEN <<>>
    ELSE LET t == IF i > 0 THEN Tail0(s, 1) ELSE s
             r == dtoi(t)
         IN  IF ~r.ok \/ r.n > 255 THEN <<>>
             ELSE IF r.c > 1 /\ Char(t, 1) = "0" THEN <<>>
             ELSE parseIPv4From(Tail0(t, r.c), i + 1, Append(p, r.n))

parseIPv4(s) == parseIPv4From(s, 0, <<>>)

\* the end of parseIPv6: the whole text must be used, and an ellipsis is
\* expanded to the zero bytes that are missing (ellipsis = -1: none)
parseIPv6Finish(s, ip, ellipsis) ==
    IF Len(s) # 0 THEN <<>>
    ELSE IF Len(ip) < IPv6len
         THEN IF ellipsis < 0 THEN <<>>
              ELSE SubSeq(ip, 1, ellipsis) \o Zeros(IPv6len - Len(ip))
                       \o SubSeq(ip, ellipsis + 1, Len(ip))
         ELSE IF ellipsis >= 0 THEN <<>> ELSE ip

\* the loop of parseIPv6: hex groups followed by colons, with at most one
\* ellipsis and possibly a trailing dotted IPv4 address
RECURSIVE parseIPv6Loop(_, _, _)
parseIPv6Loop(s, ip, ellipsis) ==
    LET i == Len(ip) IN
    IF i >= IPv6len THEN parseIPv6Finish(s, ip, ellipsis)
    ELSE LET r == xtoi(s) IN
         IF ~r.ok \/ r.n > 65535 THEN <<>>
         ELSE IF r.c < Len(s) /\ Char(s, r.c + 1) = "."
         THEN IF ellipsis < 0 /\ i # IPv6len - IPv4len THEN <<>>
              ELSE IF i + IPv4len > IPv6len THEN <<>>
              ELSE LET ip4 == parseIPv4(s)
                   IN  IF ip4 = <<>> THEN <<>>
                       ELSE parseIPv6Finish("", ip \o SubSeq(ip4, 13, 16), ellipsis)
         ELSE LET ip2 == ip \o <<r.n \div 256, r.n % 256>>
                  s1 == Tail0(s, r.c)
              IN  IF Len(s1) = 0 THEN parseIPv6Finish(s1, ip2, ellipsis)
                  ELSE IF Char(s1, 1) # ":" \/ Len(s1) = 1 THEN <<>>
                  ELSE LET s2 == Tail0(s1, 1)
                       IN  IF Char(s2, 1) = ":"
                           THEN IF ellipsis >= 0 THEN <<>>
                                ELSE IF Len(s2) = 1
                                     THEN parseIPv6Finish("", ip2, Len(ip2))
                                     ELSE parseIPv6Loop(Tail0(s2, 1), ip2, Len(ip2))
                           ELSE parseIPv6Loop(s2, ip2, ellipsis)

parseIPv6(s) ==
    IF Len(s) >= 2 /\ Char(s, 1) = ":" /\ Char(s, 2) = ":"
    THEN IF Len(s) = 2 THEN Zeros(IPv6len)
         ELSE parseIPv6Loop(Tail0(s, 2), <<>>, 0)
    ELSE parseIPv6Loop(s, <<>>, -1)

\* net.ParseIP(s): the first '.' or ':' decides between IPv4 and IPv6
RECURSIVE ParseIPFrom(_, _)
ParseIPFrom(s, i) ==
    IF i > Len(s) THEN <<>>
    ELSE IF Char(s, i) = "." THEN parseIPv4(s)
    ELSE IF Char(s, i) = ":" THEN parseIPv6(s)
    ELSE ParseIPFrom(s, i + 1)

ParseIP(s) == ParseIPFrom(s, 1)

\* ---- formatting ----
RECURSIVE uitoa(_)
uitoa(n) == IF n < 10 THEN DecDigits[n + 1]
            ELSE uitoa(n \div 10) \o DecDigits[(n % 10) + 1]

RECURSIVE appendHex(_)
appendHex(n) == IF n < 16 THEN HexDigits[n + 1]
                ELSE appendHex(n \div 16) \o HexDigits[(n % 16) + 1]

\* the 16-bit group of p that starts at byte offset i (0-based)
Group(p, i) == p[i + 1] * 256 + p[i + 2]

\* end (byte offset) of the run of zero groups that starts at offset i
RECURSIVE ZeroRunEnd(_, _)
ZeroRunEnd(p, j) ==
    IF j < IPv6len /\ p[j + 1] = 0 /\ p[j + 2] = 0 THEN ZeroRunEnd(p, j + 2) ELSE j

\* the longest run of zero groups as <<e0, e1>>, the first one on a tie
RECURSIVE LongestRun(_, _, _, _)
LongestRun(p, i, e0, e1) ==
    IF i >= IPv6len THEN <<e0, e1>>
    ELSE LET j == ZeroRunEnd(p, i)
         IN  IF j > i /\ j - i > e1 - e0
             THEN LongestRun(p, j + 2, i, j)
             ELSE LongestRun(p, i + 2, e0, e1)

RECURSIVE ip6Text(_, _, _, _)
ip6Text(p, i, e0, e1) ==
    IF i >= IPv6len THEN ""
    ELSE IF i = e0
         THEN IF e1 >= IPv6len THEN "::"
              ELSE "::" \o appendHex(Group(p, e1)) \o ip6Text(p, e1 + 2, e0, e1)
         ELSE (IF i > 0 THEN ":" ELSE "") \o appendHex(Group(p, i))
                  \o ip6Text(p, i + 2, e0, e1)

\* ip.String(): dotted decimal for an IPv4 address in either form, the
\* compressed IPv6 text otherwise
IPString(ip) ==
    IF Len(ip) = 0 THEN "<nil>"
    ELSE LET p4 == To4(ip) IN
         IF Len(p4) = IPv4len
         THEN uitoa(p4[1]) \o "." \o uitoa(p4[2]) \o "." \o uitoa(p4[3])
                  \o "." \o uitoa(p4[4])
         ELSE IF Len(ip) # IPv6len THEN "?"
         ELSE LET e == LongestRun(ip, 0, -1, -1)
                  e0 == IF e[2] - e[1] <= 2 THEN -1 ELSE e[1]
                  e1 == IF e[2] - e[1] <= 2 THEN -1 ELSE e[2]
              IN  ip6Text(ip, 0, e0, e1)

(***************************************************************************)
(* Bounds and the finite sets the inputs are drawn from.                   *)
(***************************************************************************)
MaxRecs == 2         \* records in the provider's zone
MaxAddrs == 2        \* addresses in one DNS answer
FairRecs == 1        \* records in the zone under FairSpec

HostedZone == "example.com"
HostedZoneID == "z1"

\* discovered addresses: 198.51.100.5 in the 4-byte and in the 16-byte
\* form, 198.51.100.9 in the 16-byte form, and an IPv6 address
Addrs == { <<198, 51, 100, 5>>, IPv4(198, 51, 100, 5), IPv4(198, 51, 100, 9),
           <<32, 1, 13, 184, 0, 0, 0, 0, 0, 0, 0, 0, 0, 0, 0, 1>> }

RecordNames == { "home.example.com", "home.sub.example.com", "homex.example.com" }
RecordContents == { "198.51.100.5", "198.51.100.9", "::ffff:198.51.100.9" }

\* the k-th record of the zone has provider ID "r<k>"
RecID(k) == "r" \o uitoa(k)

\* what a record of the zone can be, as <<type, name, content>>: an A
\* record of any of the names with any of the contents, or the AAAA record
\* of the managed name
RecordKinds ==
    ({"A"} \X RecordNames \X RecordContents)
        \cup { <<"AAAA", "home.example.com", "2001:db8::1">> }

ZoneLists ==
    UNION { { [k \in 1..n |-> [ID |-> RecID(k), Type |-> f[k][1], Name |-> f[k][2],
                               Content |-> f[k][3], ZoneID |-> HostedZoneID]]
              : f \in [1..n -> RecordKinds] }
            : n \in 0..MaxRecs }

\* an address that is never the first of an answer
OtherAddr == <<192, 0, 2, 1>>

\* what the resolver can get back for its query: no response at all, or a
\* response with 0..MaxAddrs addresses (the first one any of Addrs)
NoResponse == [failed |-> TRUE, addrs |-> <<>>]

DNSResponses ==
    { NoResponse, [failed |-> FALSE, addrs |-> <<>>] }
        \cup { [failed |-> FALSE, addrs |-> [k \in 1..n |-> IF k = 1 THEN a ELSE OtherAddr]]
                : n \in 1..MaxAddrs, a \in Addrs }

\* r.LookupIPAddr(ctx, host) as [err, ip]: the addresses of the response;
\* a failed query and a response without addresses both give an error
LookupIPAddr(resp) ==
    IF resp.failed \/ Len(resp.addrs) = 0
    THEN [err |-> TRUE, ip |-> <<>>]
    ELSE [err |-> FALSE, ip |-> resp.addrs]

\* the resolver value before lookup has run
NoLookup == [err |-> FALSE, ip |-> <<>>]

\* configuration files: dotted key -> value
FullConfig ==
    [k \in {"cloudflare.apiKey", "cloudflare.email", "dns.zone", "dns.record", "tick"} |->
        CASE k = "cloudflare.apiKey" -> "key"
          [] k = "cloudflare.email" -> "ops@example.com"
          [] k = "dns.zone" -> HostedZone
          [] k = "dns.record" -> "home"
          [] k = "tick" -> "5m"]

Without(f, key) == [k \in DOMAIN f \ {key} |-> f[k]]

ConfigFiles ==
    { FullConfig,
      Without(FullConfig, "dns.record"),
      Without(FullConfig, "cloudflare.apiKey"),
      Without(FullConfig, "tick"),
      [FullConfig EXCEPT !["tick"] = "0s"] }

(***************************************************************************)
(* The external collaborators as main.go uses them.                        *)
(***************************************************************************)
\* viper.SetDefault calls of main
viperDefaults == [k \in {"record"} |-> "@"]

\* viper.GetString(key): the file's value, else the default, else ""
GetString(cfg, key) ==
    IF key \in DOMAIN cfg THEN cfg[key]
    ELSE IF key \in DOMAIN viperDefaults THEN viperDefaults[key]
    ELSE ""

\* cf.New with its error never reported
NewFailsNever(key, email) == FALSE

\* cf.New(key, email): fails on empty credentials
NewFails(key, email) == key = "" \/ email = ""

\* time.ParseDuration(s) for a single "<digits><unit>" component:
\* [ok, d] with d in seconds
ParseDuration(s) ==
    IF s = "0" THEN [ok |-> TRUE, d |-> 0]
    ELSE LET r == dtoi(s)
             u == Tail0(s, r.c)
         IN  IF ~r.ok THEN [ok |-> FALSE, d |-> 0]
             ELSE IF u = "s" THEN [ok |-> TRUE, d |-> r.n]
             ELSE IF u = "m" THEN [ok |-> TRUE, d |-> r.n * 60]
             ELSE IF u = "h" THEN [ok |-> TRUE, d |-> r.n * 3600]
             ELSE [ok |-> FALSE, d |-> 0]

\* fmt.Sprintf("%s.%s", a, z)
Sprintf(a, z) == a \o "." \o z

\* the zero value of cf.DNSRecord (the fields the program reads)
ZeroRecord == [ID |-> "", Type |-> "", Name |-> "", Content |-> "", ZoneID |-> ""]

\* the zero value of dynIP
ZeroDyn == [zoneName |-> "", record |-> ZeroRecord, aRecord |-> "",
            rIP |-> <<>>, dIP |-> <<>>]

\* provider side of api.DNSRecords(zoneID, rr): the zone's records of
\* rr's type
ListRecords(z, zid, rr) ==
    IF zid = HostedZoneID THEN SelectSeq(z, LAMBDA r : r.Type = rr.Type) ELSE <<>>

\* provider side of api.UpdateDNSRecord: the update is acceptable when it
\* names an existing record of the zone and carries an IPv4 address for an
\* A record
UpdateAcceptable(z, zid, rid, rr) ==
    /\ zid = HostedZoneID
    /\ \E k \in 1..Len(z) : z[k].ID = rid
    /\ rr.Type = "A"
    /\ To4(ParseIP(rr.Content)) # <<>>

ApplyUpdate(z, rid, rr) ==
    [k \in 1..Len(z) |->
        IF z[k].ID = rid
        THEN [z[k] EXCEPT !.Type = rr.Type, !.Name = rr.Name, !.Content = rr.Content]
        ELSE z[k]]

(***************************************************************************)
(* The program.                                                            *)
(***************************************************************************)
VARIABLES
    pc,         \* position of the main goroutine
    cfgOK,      \* a configuration file can be read
    cfg,        \* the configuration file
    tickCh,     \* ticks buffered in the ticker's channel (capacity 1)
    zone,       \* the provider's records of the hosted zone
    dyn,        \* the dynIP value of the current tick
    zoneID,     \* getRecord's local zoneID
    getErr,     \* getRecord returned an error in this tick
    syncRes,    \* what Sync returned in this tick: "none", "nil", "err"
    calls,      \* provider calls of this tick, in order
    tlog,       \* log lines of this tick, in order
    inflight,   \* tick bodies that have started and not ended
    oob,        \* the record set was changed by someone else since the
                \* last tick began
    prev,       \* summary of the previous tick
    dns,        \* newPublicIP's resolver after lookup: [err, ip]
    lookups     \* DNS queries sent in this tick

vars == <<pc, cfgOK, cfg, tickCh, zone, dyn, zoneID, getErr, syncRes, calls,
          tlog, inflight, oob, prev, dns, lookups>>

NoPrev == [status |-> "none", dIP |-> <<>>, updates |-> 0]

Init ==
    /\ pc = "ReadInConfig"
    /\ cfgOK \in BOOLEAN
    /\ cfg \in ConfigFiles
    /\ (~cfgOK => cfg = FullConfig)
    /\ tickCh = 0
    /\ zone \in ZoneLists
    /\ dyn = ZeroDyn
    /\ zoneID = ""
    /\ getErr = FALSE
    /\ syncRes = "none"
    /\ calls = <<>>
    /\ tlog = <<>>
    /\ inflight = 0
    /\ oob = FALSE
    /\ prev = NoPrev
    /\ dns = NoLookup
    /\ lookups = 0

tickVars == <<dyn, zoneID, getErr, syncRes, calls, inflight, oob, prev, dns, lookups>>

Log(level, msg) == tlog' = Append(tlog, [level |-> level, msg |-> msg])

\* ---- startup (main, lines 108-142) ----
ReadInConfig ==
    /\ pc = "ReadInConfig"
    /\ IF cfgOK
       THEN pc' = "New" /\ Log("info", "configuration")
       ELSE pc' = "exited" /\ Log("fatal", "configuration")
    /\ UNCHANGED <<cfgOK, cfg, tickCh, zone>>
    /\ UNCHANGED tickVars

New ==
    /\ pc = "New"
    /\ IF NewFails(GetString(cfg, "cloudflare.apiKey"), GetString(cfg, "cloudflare.email"))
       THEN pc' = "exited" /\ Log("fatal", "cloudflare")
       ELSE pc' = "ParseDuration" /\ UNCHANGED tlog
    /\ UNCHANGED <<cfgOK, cfg, tickCh, zone>>
    /\ UNCHANGED tickVars

\* time.ParseDuration and time.NewTicker, which panics on a non-positive
\* interval
ParseDurationStep ==
    /\ pc = "ParseDuration"
    /\ LET r == ParseDuration(GetString(cfg, "tick"))
       IN  IF ~r.ok THEN pc' = "exited" /\ Log("fatal", "duration")
           ELSE IF r.d <= 0 THEN pc' = "panicked" /\ UNCHANGED tlog
           ELSE pc' = "wait" /\ UNCHANGED tlog
    /\ UNCHANGED <<cfgOK, cfg, tickCh, zone>>
    /\ UNCHANGED tickVars

\* ---- the ticker ----
TickerRunning == pc \notin {"ReadInConfig", "New", "ParseDuration", "exited", "panicked"}

\* the runtime timer sends a tick without blocking: a tick that finds the
\* channel full is dropped
TimerFire ==
    /\ TickerRunning
    /\ tickCh' = 1
    /\ UNCHANGED <<pc, cfgOK, cfg, zone, tlog>>
    /\ UNCHANGED tickVars

\* the loop with each tick's body handed to a goroutine of its own: a tick
\* is received while the previous body still runs
LoopReadyConcurrent == TickerRunning

\* "for range ticker.C": the main goroutine receives from the channel only
\* between two bodies
LoopReady == pc = "wait"

\* what the tick that just ended leaves for the next one to be compared
\* with: "clean" when every provider call of it succeeded, "updfail" when
\* its update call failed, "changed" when someone else changed the records
\* since it began
AllCallsOK == \A k \in 1..Len(calls) : calls[k].ok

UpdateCalls == SelectSeq(calls, LAMBDA c : c.op = "UpdateDNSRecord")

UpdateFailed == \E k \in 1..Len(calls) : calls[k].op = "UpdateDNSRecord" /\ ~calls[k].ok

Summary ==
    IF syncRes = "none" THEN NoPrev
    ELSE IF oob THEN [status |-> "changed", dIP |-> <<>>, updates |-> 0]
    ELSE IF AllCallsOK
         THEN [status |-> "clean", dIP |-> dyn.dIP, updates |-> Len(UpdateCalls)]
    ELSE IF UpdateFailed /\ ~getErr
         THEN [status |-> "updfail", dIP |-> dyn.dIP, updates |-> Len(UpdateCalls)]
    ELSE NoPrev

RecvTick ==
    /\ LoopReady
    /\ tickCh = 1
    /\ tickCh' = 0
    /\ pc' = "newPublicIP"
    /\ inflight' = inflight + 1
    /\ prev' = Summary
    /\ oob' = FALSE
    /\ dyn' = ZeroDyn
    /\ zoneID' = ""
    /\ getErr' = FALSE
    /\ syncRes' = "none"
    /\ calls' = <<>>
    /\ tlog' = <<>>
    /\ dns' = NoLookup
    /\ lookups' = 0
    /\ UNCHANGED <<cfgOK, cfg, zone>>

\* ---- the body of a tick (main, lines 145-167) ----

\* the loop after the handling of a discovery failure, the tick skipped
\* instead of the process left
AfterNewPublicIPSkip(err) == IF err THEN "wait" ELSE "ZoneIDByName"

\* main after newPublicIP: "return" on an error
AfterNewPublicIP(err) == IF err THEN "exited" ELSE "ZoneIDByName"

\* newPublicIP returning the last address of the answer
NewPublicIPLast(r) ==
    IF r.err THEN [err |-> TRUE, panic |-> FALSE, ip |-> <<>>]
    ELSE IF Len(r.ip) = 0 THEN [err |-> FALSE, panic |-> TRUE, ip |-> <<>>]
    ELSE [err |-> FALSE, panic |-> FALSE, ip |-> r.ip[Len(r.ip)]]

\* newPublicIP after dns.lookup, on the resolver r: the error of the lookup
\* with an empty IP, or dns.ip[0].IP, which panics on an empty dns.ip
NewPublicIPResult(r) ==
    IF r.err THEN [err |-> TRUE, panic |-> FALSE, ip |-> <<>>]
    ELSE IF Len(r.ip) = 0 THEN [err |-> FALSE, panic |-> TRUE, ip |-> <<>>]
    ELSE [err |-> FALSE, panic |-> FALSE, ip |-> r.ip[1]]

\* the dynIP value with the fields of the struct literal of main set
NewDyn(zoneName, aRecord, dIP) ==
    [ZeroDyn EXCEPT !.zoneName = zoneName, !.aRecord = aRecord, !.dIP = dIP]

\* resolver.lookup: the query is sent and, without an error, dns.ip set
Lookup ==
    /\ pc = "newPublicIP"
    /\ \E resp \in DNSResponses : dns' = LookupIPAddr(resp)
    /\ lookups' = lookups + 1
    /\ pc' = "lookupDone"
    /\ UNCHANGED <<cfgOK, cfg, tickCh, zone, dyn, zoneID, getErr, syncRes, calls,
                   tlog, inflight, oob, prev>>

\* the rest of newPublicIP, and main's handling of its result
NewPublicIP ==
    /\ pc = "lookupDone"
    /\ LET res == NewPublicIPResult(dns)
       IN  IF res.panic
           THEN /\ pc' = "panicked"
                /\ inflight' = inflight - 1
                /\ UNCHANGED <<dyn, tlog>>
           ELSE IF res.err
           THEN /\ pc' = AfterNewPublicIP(TRUE)
                /\ Log("error", "DNS lookup error")
                /\ inflight' = inflight - 1
                /\ UNCHANGED dyn
           ELSE /\ pc' = AfterNewPublicIP(FALSE)
                /\ dyn' = NewDyn(GetString(cfg, "dns.zone"),
                                 GetString(cfg, "dns.record"), res.ip)
                /\ UNCHANGED <<tlog, inflight>>
    /\ dns' = NoLookup
    /\ UNCHANGED <<cfgOK, cfg, tickCh, zone, zoneID, getErr, syncRes, calls, oob,
                   prev, lookups>>

\* getRecord going on to the listing with the error of the zone lookup
\* ignored
AfterZoneIDByNameIgnored(ok) == "DNSRecords"

\* getRecord after api.ZoneIDByName: an error is returned at once
AfterZoneIDByName(ok) == IF ok THEN "DNSRecords" ELSE "Sync"

\* a provider call as recorded in calls; logged is the number of log lines
\* of the tick written before it
Call(op, ok, zid, rid, rr, logged) ==
    [op |-> op, ok |-> ok, zoneID |-> zid, recordID |-> rid, rr |-> rr,
     logged |-> logged]

\* getRecord, first call: api.ZoneIDByName; on an error getRecord returns
\* it and main logs it
ZoneIDByName ==
    /\ pc = "ZoneIDByName"
    /\ \E ok \in BOOLEAN :
          /\ ok => dyn.zoneName = HostedZone
          /\ calls' = Append(calls, Call("ZoneIDByName", ok, "", "", ZeroRecord, Len(tlog)))
          /\ pc' = AfterZoneIDByName(ok)
          /\ IF ok
             THEN zoneID' = HostedZoneID /\ UNCHANGED <<getErr, tlog>>
             ELSE /\ IF pc' = "Sync"
                     THEN getErr' = TRUE /\ Log("print", "error getting remote ip")
                     ELSE UNCHANGED <<getErr, tlog>>
                  /\ UNCHANGED zoneID
    /\ UNCHANGED <<cfgOK, cfg, tickCh, zone, dyn, syncRes, inflight, oob, prev,
                   dns, lookups>>

\* a record matches when its name ends with the zone name and starts with
\* the label
NameMatchesAffix(r, d) ==
    /\ Len(r.Name) >= Len(d.aRecord) + Len(d.zoneName)
    /\ SubSeq(r.Name, 1, Len(d.aRecord)) = d.aRecord
    /\ SubSeq(r.Name, Len(r.Name) - Len(d.zoneName) + 1, Len(r.Name)) = d.zoneName

\* the test of getRecord's loop
NameMatches(r, d) == r.Name = Sprintf(d.aRecord, d.zoneName)

\* the recorded address never taken from the record
RecordIPNone(content) == <<>>

\* the recorded address of a record: its content as a 4-byte address
RecordIP(content) == To4(ParseIP(content))

\* getRecord's loop: the first matching record and its address
RECURSIVE Scan(_, _, _)
Scan(recs, k, d) ==
    IF k > Len(recs) THEN d
    ELSE IF NameMatches(recs[k], d)
         THEN [d EXCEPT !.record = recs[k], !.rIP = RecordIP(recs[k].Content)]
         ELSE Scan(recs, k + 1, d)

\* getRecord, second call: api.DNSRecords, then the loop
DNSRecords ==
    /\ pc = "DNSRecords"
    /\ \E ok \in BOOLEAN :
          /\ calls' = Append(calls, Call("DNSRecords", ok, zoneID, "",
                                          [ZeroRecord EXCEPT !.Type = "A"], Len(tlog)))
          /\ IF ok
             THEN /\ dyn' = Scan(ListRecords(zone, zoneID, [ZeroRecord EXCEPT !.Type = "A"]),
                                 1, dyn)
                  /\ UNCHANGED <<getErr, tlog>>
             ELSE /\ getErr' = TRUE
                  /\ Log("print", "error getting remote ip")
                  /\ UNCHANGED dyn
    /\ pc' = "Sync"
    /\ UNCHANGED <<cfgOK, cfg, tickCh, zone, zoneID, syncRes, inflight, oob, prev,
                   dns, lookups>>

\* the payload with the content left as it was
UpdatePayloadStale(d) == d.record

\* Sync's payload: the located record with the discovered IP as content
UpdatePayload(d) == [d.record EXCEPT !.Content = IPString(d.dIP)]

\* Sync with the error of the update call dropped
SyncReturnSwallow(updateOK) == "nil"

\* what Sync returns after the update call
SyncReturn(updateOK) == IF updateOK THEN "nil" ELSE "err"

\* main leaving the loop when Sync failed
AfterSyncReturn(res) == IF res = "err" THEN "exited" ELSE "wait"

\* main after Sync: the error is logged and the loop goes on
AfterSync(res) == "wait"

\* the "synched" line written whatever the update call returned
SynchedLogAlways(updateOK) == <<[level |-> "info", msg |-> "synched"]>>

\* Sync's log after the update call: the "synched" line, when the call
\* succeeded
SynchedLog(updateOK) ==
    IF updateOK THEN <<[level |-> "info", msg |-> "synched"]>> ELSE <<>>

\* the discovered IP kept from the tick before, when there was one
DiscoveredCached == IF prev.dIP # <<>> THEN prev.dIP ELSE dyn.dIP

\* the discovered IP Sync works with: the dIP field set in this tick
Discovered == dyn.dIP

\* Sync, and main's handling of its result
Sync ==
    /\ pc = "Sync"
    /\ IF Equal(Discovered, dyn.rIP)
       THEN /\ syncRes' = "nil"
            /\ UNCHANGED <<calls, tlog, zone>>
       ELSE \E ok \in BOOLEAN :
               LET rr == UpdatePayload([dyn EXCEPT !.dIP = Discovered])
                   zid == dyn.record.ZoneID
                   rid == dyn.record.ID
                   warned == Append(tlog, [level |-> "warn", msg |-> "out of sync"])
               IN  /\ ok => UpdateAcceptable(zone, zid, rid, rr)
                   /\ calls' = Append(calls, Call("UpdateDNSRecord", ok, zid, rid, rr,
                                                  Len(warned)))
                   /\ zone' = IF ok THEN ApplyUpdate(zone, rid, rr) ELSE zone
                   /\ syncRes' = SyncReturn(ok)
                   /\ tlog' = warned
                                \o SynchedLog(ok)
                                \o (IF syncRes' = "err"
                                    THEN <<[level |-> "print", msg |-> "error syncing remote DNS"]>>
                                    ELSE <<>>)
    /\ pc' = AfterSync(syncRes')
    /\ inflight' = inflight - 1
    /\ UNCHANGED <<cfgOK, cfg, tickCh, dyn, zoneID, getErr, oob, prev, dns, lookups>>

\* ---- the environment ----
\* someone else changes the content of an A record of the zone
OutOfBand ==
    /\ TickerRunning
    /\ \E k \in 1..Len(zone), c \in RecordContents :
          /\ zone[k].Type = "A"
          /\ zone[k].Content # c
          /\ zone' = [zone EXCEPT ![k].Content = c]
    /\ oob' = TRUE
    /\ UNCHANGED <<pc, cfgOK, cfg, tickCh, dyn, zoneID, getErr, syncRes, calls,
                   tlog, inflight, prev, dns, lookups>>

Next ==
    \/ ReadInConfig
    \/ New
    \/ ParseDurationStep
    \/ TimerFire
    \/ RecvTick
    \/ Lookup
    \/ NewPublicIP
    \/ ZoneIDByName
    \/ DNSRecords
    \/ Sync
    \/ OutOfBand

Spec == Init /\ [][Next]_vars

TypeOK ==
    /\ pc \in {"ReadInConfig", "New", "ParseDuration", "wait", "newPublicIP",
               "lookupDone", "ZoneIDByName", "DNSRecords", "Sync", "exited",
               "panicked"}
    /\ lookups \in 0..1
    /\ tickCh \in 0..1
    /\ Len(zone) <= MaxRecs
    /\ Len(calls) <= 3

\* The specification for progress.  The ticker keeps firing, and the main
\* goroutine takes the step it is at: the lookup and every provider call
\* return, with a result or with an error.  The zone is kept smaller.
MainStep == RecvTick \/ Lookup \/ NewPublicIP \/ ZoneIDByName \/ DNSRecords \/ Sync

FairInit == Init /\ Len(zone) <= FairRecs

FairSpec == FairInit /\ [][Next]_vars /\ WF_vars(TimerFire) /\ WF_vars(MainStep)

(***************************************************************************)
(* Properties.  The addresses below are written out, independently of the  *)
(* conversions of the model.                                               *)
(***************************************************************************)
\* the IPv4 address a record content stands for
ContentAddr(c) ==
    CASE c = "198.51.100.5" -> <<198, 51, 100, 5>>
      [] c = "198.51.100.9" -> <<198, 51, 100, 9>>
      [] c = "::ffff:198.51.100.9" -> <<198, 51, 100, 9>>
      [] OTHER -> <<>>

\* the IPv4 address a discovered IP stands for (<<>>: not an IPv4 address)
DiscoveredAddr(ip) ==
    CASE ip = <<198, 51, 100, 5>> -> <<198, 51, 100, 5>>
      [] ip = <<0, 0, 0, 0, 0, 0, 0, 0, 0, 0, 255, 255, 198, 51, 100, 5>> -> <<198, 51, 100, 5>>
      [] ip = <<0, 0, 0, 0, 0, 0, 0, 0, 0, 0, 255, 255, 198, 51, 100, 9>> -> <<198, 51, 100, 9>>
      [] OTHER -> <<>>

\* two discovered IPs are the same address
SameDiscovered(a, b) ==
    IF DiscoveredAddr(a) # <<>> THEN DiscoveredAddr(a) = DiscoveredAddr(b) ELSE a = b

TickDone == syncRes # "none"                 \* Sync has returned in this tick
Located == dyn.record # ZeroRecord           \* getRecord found the record
DiscoveryFailed ==
    \E k \in 1..Len(tlog) : tlog[k] = [level |-> "error", msg |-> "DNS lookup error"]
AnyCallFailed == \E k \in 1..Len(calls) : ~calls[k].ok
ListedOK == \E k \in 1..Len(calls) : calls[k].op = "DNSRecords" /\ calls[k].ok

\* the name the configuration asks for
ManagedName ==
    IF "dns.record" \in DOMAIN cfg THEN "home.example.com" ELSE ".example.com"

\* positions of the A records of the zone that carry the managed name
MatchingPositions ==
    { k \in 1..Len(zone) : zone[k].Type = "A" /\ zone[k].Name = ManagedName }

\* the located record's content and the discovered IP are different addresses
Drift == Located /\ ContentAddr(dyn.record.Content) # DiscoveredAddr(dyn.dIP)

C2_NoMatchNoUpdate ==
    (ListedOK /\ MatchingPositions = {}) => (~getErr /\ UpdateCalls = <<>>)

\* C3: in a tick where getRecord fails with a provider error, the error is
\* logged and no update call is issued.
C3_GetRecordErrorEndsTick ==
    getErr => (/\ \E k \in 1..Len(tlog) : tlog[k].msg = "error getting remote ip"
               /\ UpdateCalls = <<>>)

\* C4: after a tick in which a provider call failed the loop goes on: the
\* body of the next tick is started.
C4_LoopSurvivesProviderError ==
    AnyCallFailed ~> (pc = "newPublicIP" /\ ~AnyCallFailed)

\* C4 witness: a tick is over, its update call has failed and the main
\* goroutine waits for the next tick
C4_Witness ==
    /\ TickDone
    /\ UpdateFailed
    /\ Located
    /\ pc = "wait"

\* C5: a failure of the discovery ends the process: no provider call is
\* made in that tick, and nothing runs afterwards.
C5_DiscoveryFailureIsFatal ==
    /\ [](DiscoveryFailed => (pc = "exited" /\ calls = <<>>))
    /\ [][pc = "exited" => (pc' = "exited" /\ calls' = calls /\ zone' = zone)]_vars

\* C5 witness: the discovery fails in a tick that follows a complete one,
\* with a tick waiting in the channel
C5_Witness ==
    /\ DiscoveryFailed
    /\ pc = "exited"
    /\ prev.status = "clean"
    /\ tickCh = 1

\* C6: a failure of the discovery is logged and the tick is given up, the
\* loop goes on; only startup problems end the process.
C6_DiscoveryFailureSkipsTick ==
    /\ DiscoveryFailed => pc = "wait"
    /\ pc = "exited" => (tlog # <<>> /\ tlog[Len(tlog)].level = "fatal")

\* C7: with every provider call succeeding and nobody else changing the
\* record, a reconciliation makes exactly one update call when the located
\* record and the discovered IP differ and none otherwise, and the next
\* reconciliation with the same discovered IP makes none.
C7_Idempotent ==
    (TickDone /\ AllCallsOK /\ ~oob)
    => /\ Located
       /\ Len(UpdateCalls) = (IF Drift THEN 1 ELSE 0)
       /\ (prev.status = "clean" /\ SameDiscovered(prev.dIP, dyn.dIP))
              => UpdateCalls = <<>>

\* C7 witness: the first reconciliation made its update call, the second,
\* with the same address in the other form, made none
C7_Witness ==
    /\ TickDone
    /\ AllCallsOK
    /\ ~oob
    /\ prev.status = "clean"
    /\ prev.updates = 1
    /\ prev.dIP = <<198, 51, 100, 5>>
    /\ dyn.dIP = IPv4(198, 51, 100, 5)
    /\ UpdateCalls = <<>>

\* C8: a failed update call leaves the provider's records as they were and
\* makes Sync return the error, and the next tick that finds the same
\* discovered IP and the same record issues the update call again.
C8_FailedUpdateRetried ==
    /\ [][(pc = "Sync" /\ UpdateFailed') => (zone' = zone /\ syncRes' = "err")]_vars
    /\ []((/\ prev.status = "updfail"
           /\ TickDone
           /\ ~getErr
           /\ ~oob
           /\ SameDiscovered(prev.dIP, dyn.dIP))
          => Len(UpdateCalls) = 1)

\* C8 witness: the update of a located record failed in the previous tick
\* and is issued again in this one
C8_Witness ==
    /\ prev.status = "updfail"
    /\ TickDone
    /\ ~getErr
    /\ ~oob
    /\ Located
    /\ Drift
    /\ SameDiscovered(prev.dIP, dyn.dIP)
    /\ Len(UpdateCalls) = 1
    /\ UpdateCalls[1].recordID = dyn.record.ID

\* C9: getRecord selects the first listed A record whose name is exactly
\* label.zone, and never a record of another name.
C9_ExactMatch ==
    ListedOK =>
        /\ dyn.record.Name \notin {"home.sub.example.com", "homex.example.com"}
        /\ IF MatchingPositions = {}
           THEN dyn.record = ZeroRecord
           ELSE /\ dyn.record.Name = ManagedName
                /\ dyn.record.ID = RecID(CHOOSE k \in MatchingPositions :
                                            \A j \in MatchingPositions : k <= j)

\* C9 witness: the record selected is listed after a record whose name
\* only resembles the configured one
C9_Witness ==
    /\ ListedOK
    /\ Len(zone) = 2
    /\ zone[1].Type = "A"
    /\ zone[1].Name \in {"home.sub.example.com", "homex.example.com"}
    /\ dyn.record.Name = "home.example.com"
    /\ dyn.record.ID = "r2"

\* C10: at most one tick body is being executed at any time.
C10_OneInFlight == inflight <= 1

\* C10 witness: the ticker fired again while a body is still being executed
C10_Witness ==
    /\ pc \in {"ZoneIDByName", "DNSRecords", "Sync"}
    /\ tickCh = 1
    /\ inflight = 1

\* the configuration lacks something the startup needs
BadConfig ==
    \/ ~cfgOK
    \/ "cloudflare.apiKey" \notin DOMAIN cfg
    \/ "cloudflare.email" \notin DOMAIN cfg
    \/ "tick" \notin DOMAIN cfg

\* the text of a discovered IP
DiscoveredText(ip) ==
    CASE DiscoveredAddr(ip) = <<198, 51, 100, 5>> -> "198.51.100.5"
      [] DiscoveredAddr(ip) = <<198, 51, 100, 9>> -> "198.51.100.9"
      [] OTHER -> "2001:db8::1"

\* the first A record of the zone that carries the managed name
FirstMatch == CHOOSE k \in MatchingPositions : \A j \in MatchingPositions : k <= j

OutOfSyncLine == [level |-> "warn", msg |-> "out of sync"]
SynchedLine == [level |-> "info", msg |-> "synched"]

\* C11: with a configuration that cannot be read, without credentials or
\* without a tick duration that parses, the process exits after logging at
\* startup: no tick is run, no DNS query and no provider call is made.
C11_StartupErrorsFatal ==
    BadConfig =>
        /\ pc \in {"ReadInConfig", "New", "ParseDuration", "exited"}
        /\ pc = "exited" => (tlog # <<>> /\ tlog[Len(tlog)].level = "fatal")
        /\ lookups = 0
        /\ calls = <<>>
        /\ inflight = 0
        /\ syncRes = "none"
        /\ tickCh = 0

\* C11 witness: the configuration has no tick duration, and the process
\* has exited with the fatal log line of time.ParseDuration
C11_Witness ==
    /\ cfgOK
    /\ "tick" \notin DOMAIN cfg
    /\ pc = "exited"
    /\ tlog[Len(tlog)] = [level |-> "fatal", msg |-> "duration"]

\* C12: every update call carries the zone ID and the record ID of the
\* record located in the same tick, and as payload that record with the
\* discovered IP as content; no other record is ever targeted.
C12_UpdateTargetsLocated ==
    \A k \in 1..Len(calls) :
        calls[k].op = "UpdateDNSRecord" =>
            /\ Located
            /\ calls[k].zoneID = HostedZoneID
            /\ calls[k].recordID = dyn.record.ID
            /\ \E j \in MatchingPositions : calls[k].recordID = RecID(j)
            /\ calls[k].rr = [dyn.record EXCEPT !.Content = DiscoveredText(dyn.dIP)]

\* C13: the data a tick works with is made in that tick.  A body starts
\* with nothing; after a listing the record and its address are those of
\* the zone as it is now, after a failed getRecord there are none; and the
\* update is decided and filled with the IP discovered in this tick.
C13_NothingCarried ==
    /\ pc \in {"newPublicIP", "lookupDone"}
           => (dyn = ZeroDyn /\ zoneID = "" /\ calls = <<>> /\ ~getErr)
    /\ (pc = "Sync" /\ ListedOK /\ ~oob)
           => IF MatchingPositions = {}
              THEN dyn.record = ZeroRecord /\ dyn.rIP = <<>>
              ELSE /\ dyn.record = zone[FirstMatch]
                   /\ dyn.rIP = ContentAddr(zone[FirstMatch].Content)
    /\ getErr => (dyn.record = ZeroRecord /\ dyn.rIP = <<>>)
    /\ (TickDone /\ UpdateCalls # <<>>)
           => UpdateCalls[1].rr.Content = DiscoveredText(dyn.dIP)
    /\ (TickDone /\ UpdateCalls = <<>>)
           => (Located /\ ContentAddr(dyn.record.Content) = DiscoveredAddr(dyn.dIP))

\* C13 witness: the record was changed by someone else after the previous
\* tick had begun, and this tick has updated it
C13_Witness ==
    /\ prev.status = "changed"
    /\ TickDone
    /\ ~oob
    /\ Located
    /\ Len(UpdateCalls) = 1
    /\ UpdateCalls[1].ok

\* C14: in a tick the DNS query comes first, then the zone lookup, then the
\* record listing, then at most one update call; the listing is not
\* attempted after a failed zone lookup.
C14_StepOrder ==
    /\ lookups <= 1
    /\ calls # <<>> => (lookups = 1 /\ pc \notin {"newPublicIP", "lookupDone"})
    /\ \A k \in 1..Len(calls) :
          /\ calls[k].op = "ZoneIDByName" <=> k = 1
          /\ calls[k].op = "DNSRecords" => (k = 2 /\ calls[1].ok)
          /\ calls[k].op = "UpdateDNSRecord" => (k = Len(calls) /\ k >= 2)

\* C14 witness: a tick with all three provider calls
C14_Witness ==
    /\ Len(calls) = 3
    /\ calls[2].ok
    /\ calls[3].op = "UpdateDNSRecord"
    /\ calls[3].ok

\* C15: an update call comes after the "out of sync" line of its tick, a
\* "synched" line comes only after an update call that succeeded, and a
\* tick whose discovered IP equals the recorded one has no "out of sync"
\* line.
C15_LogLines ==
    /\ \A k \in 1..Len(calls) :
          calls[k].op = "UpdateDNSRecord"
              => \E j \in 1..calls[k].logged : tlog[j] = OutOfSyncLine
    /\ \A j \in 1..Len(tlog) :
          tlog[j] = SynchedLine
              => \E k \in 1..Len(calls) :
                    /\ calls[k].op = "UpdateDNSRecord"
                    /\ calls[k].ok
                    /\ calls[k].logged < j
    /\ (/\ TickDone
        /\ Located
        /\ DiscoveredAddr(dyn.dIP) # <<>>
        /\ ContentAddr(dyn.record.Content) = DiscoveredAddr(dyn.dIP))
           => \A j \in 1..Len(tlog) : tlog[j] # OutOfSyncLine

\* C15 witness: the update call of a located record has failed; the log
\* has the "out of sync" line and no "synched" line
C15_Witness ==
    /\ TickDone
    /\ Located
    /\ UpdateFailed
    /\ \E j \in 1..Len(tlog) : tlog[j] = OutOfSyncLine
    /\ \A j \in 1..Len(tlog) : tlog[j] # SynchedLine

\* C16: without dns.record in the configuration, the label getRecord
\* matches with is "@".
C16_DefaultLabel ==
    ("dns.record" \notin DOMAIN cfg /\ dyn.dIP # <<>>) => dyn.aRecord = "@"

\* C18: newPublicIP returns the first address of the answer; when the
\* lookup failed or gave no address it returns an error, which main logs,
\* and no address; it never panics.
C18_FirstAddressOrError ==
    /\ [](pc = "lookupDone" => (dns.err <=> dns.ip = <<>>))
    /\ [][(pc = "lookupDone" /\ pc' # "lookupDone")
            => /\ pc' # "panicked"
               /\ IF dns.err \/ dns.ip = <<>>
                  THEN DiscoveryFailed' /\ dyn' = dyn /\ pc' \notin {"ZoneIDByName"}
                  ELSE dyn'.dIP = dns.ip[1] /\ ~DiscoveryFailed']_vars

\* C18 witness: the answer has several addresses, and newPublicIP is about
\* to return
C18_Witness ==
    /\ pc = "lookupDone"
    /\ Len(dns.ip) >= 2
    /\ dns.ip[1] # dns.ip[2]

\* the IPv4 addresses the public IP can be
PublicAddrs == { <<198, 51, 100, 5>>, <<198, 51, 100, 9>> }

\* the conditions of convergence, for the public IP a: the loop runs, the
\* lookup and every provider call of the tick succeeded, the public IP
\* seen is a, a matching A record exists and nobody else has changed the
\* records
Stable(a) ==
    /\ TickerRunning
    /\ ~dns.err
    /\ dns.ip # <<>> => DiscoveredAddr(dns.ip[1]) = a
    /\ dyn.dIP # <<>> => DiscoveredAddr(dyn.dIP) = a
    /\ ~AnyCallFailed
    /\ ~oob
    /\ MatchingPositions # {}

\* the record getRecord locates holds the public IP a, and the tick has
\* made no update call
Converged(a) ==
    /\ MatchingPositions # {}
    /\ ContentAddr(zone[FirstMatch].Content) = a
    /\ UpdateCalls = <<>>

\* C17: if from some tick on the public IP is constant, every call
\* succeeds, a matching A record exists and nobody else changes it, then
\* eventually the record's content is the public IP, and from then on no
\* update call is made.
C17_Convergence ==
    \A a \in PublicAddrs : (<>[]Stable(a)) => <>[]Converged(a)

\* C17 witness: the tick before has updated the record, and this tick,
\* with the same public IP, has found it in sync and made no update call
C17_Witness ==
    /\ prev.status = "clean"
    /\ prev.updates = 1
    /\ TickDone
    /\ ~oob
    /\ Located
    /\ UpdateCalls = <<>>
    /\ SameDiscovered(prev.dIP, dyn.dIP)
    /\ \E a \in PublicAddrs : Stable(a) /\ Converged(a)
=============================================================================
